---- MODULE Spec2Model ----
(***************************************************************************)
(* Model of src/authentication.ts: authenticate(options) locates a League  *)
(* Client process, extracts the LCU credentials from its command line and  *)
(* either reports the outcome of one attempt or polls until one succeeds.  *)
(***************************************************************************)
EXTENDS Integers, Sequences, FiniteSets

(* ------------------------------------------------------------------ *)
(* Bounds of the model                                                 *)
(* ------------------------------------------------------------------ *)

\* Most process-listing commands one call may execute in the model.
MaxAttempts == 3

\* Most lines one process-listing output holds in the model.
MaxLines == 2

(* ------------------------------------------------------------------ *)
(* Optional values: undefined is the empty set, a value v is {v}       *)
(* ------------------------------------------------------------------ *)

Undefined == {}

Some(v) == {v}

IsUndefined(x) == x = {}

Val(x) == CHOOSE v \in x : TRUE

(* ------------------------------------------------------------------ *)
(* Text: a string is a sequence of one-character strings               *)
(* ------------------------------------------------------------------ *)

Digits == {"0","1","2","3","4","5","6","7","8","9"}

Letters ==
  {"a","b","c","d","e","f","g","h","i","j","k","l","m","n","o","p","q","r",
   "s","t","u","v","w","x","y","z",
   "A","B","C","D","E","F","G","H","I","J","K","L","M","N","O","P","Q","R",
   "S","T","U","V","W","X","Y","Z"}

\* The class \w of a JavaScript regular expression.
WordChars == Letters \cup Digits \cup {"_"}

\* The class [0-9] of portRegex and pidRegex.
DigitClass == Digits

\* The class [\w-_] of passwordRegex: \w, the hyphen and the underscore.
PasswordClass == WordChars \cup {"-", "_"}

PortMarker == <<"-","-","a","p","p","-","p","o","r","t","=">>

PasswordMarker ==
  <<"-","-","r","e","m","o","t","i","n","g","-","a","u","t","h","-",
    "t","o","k","e","n","=">>

PidMarker == <<"-","-","a","p","p","-","p","i","d","=">>

\* lit occurs in s at position i.
StartsAt(s, i, lit) ==
  /\ i + Len(lit) - 1 <= Len(s)
  /\ \A j \in 1..Len(lit) : s[i + j - 1] = lit[j]

Min(S) == CHOOSE x \in S : \A y \in S : x <= y

\* The last position of the run of class characters of s that starts at
\* from: the greedy match of [class]+ (from - 1 when the run is empty).
RunEnd(s, from, class) ==
  Min({k \in from..(Len(s) + 1) : k = Len(s) + 1 \/ s[k] \notin class}) - 1

\* The pattern /lit([class]+)/ matches s at position i.
MatchesAt(s, i, lit, class) ==
  /\ StartsAt(s, i, lit)
  /\ i + Len(lit) <= Len(s)
  /\ s[i + Len(lit)] \in class

Max(S) == CHOOSE x \in S : \A y \in S : x >= y

\* Match taking the last match of the pattern instead of the leftmost one.
MatchLast(s, lit, class) ==
  LET hits == {i \in 1..Len(s) : MatchesAt(s, i, lit, class)}
  IN  IF hits = {} THEN Undefined
      ELSE LET from == Max(hits) + Len(lit)
           IN  Some(SubSeq(s, from, RunEnd(s, from, class)))

\* s.match(/lit([class]+)/): Undefined for null, otherwise the capture group
\* of the leftmost match.
Match(s, lit, class) ==
  LET hits == {i \in 1..Len(s) : MatchesAt(s, i, lit, class)}
  IN  IF hits = {} THEN Undefined
      ELSE LET from == Min(hits) + Len(lit)
           IN  Some(SubSeq(s, from, RunEnd(s, from, class)))

DigitValue(c) ==
  CASE c = "0" -> 0 [] c = "1" -> 1 [] c = "2" -> 2 [] c = "3" -> 3
    [] c = "4" -> 4 [] c = "5" -> 5 [] c = "6" -> 6 [] c = "7" -> 7
    [] c = "8" -> 8 [] c = "9" -> 9

\* Number(digits) for a non-empty run of decimal digits.
RECURSIVE Number(_)
Number(ds) ==
  IF Len(ds) = 0 THEN 0
  ELSE 10 * Number(SubSeq(ds, 1, Len(ds) - 1)) + DigitValue(ds[Len(ds)])

(* ------------------------------------------------------------------ *)
(* What the process listing can print                                  *)
(* ------------------------------------------------------------------ *)

Sp == <<" ">>

Nl == <<"\n">>

PortArgA == PortMarker \o <<"5","6","7","8","9">>

PortArgB == PortMarker \o <<"8","0">>

TokenArgA == PasswordMarker \o <<"a","b","c","-","1","2","3">>

TokenArgB == PasswordMarker \o <<"x","_","9">>

PidArgA == PidMarker \o <<"4","3","2","1">>

PidArgB == PidMarker \o <<"7">>

\* A client's command line with the three arguments.
LineFullA == PortArgA \o Sp \o TokenArgA \o Sp \o PidArgA

\* Another client's command line: other values, in another order.
LineFullB == PidArgB \o Sp \o TokenArgB \o Sp \o PortArgB

LineNoPort == TokenArgA \o Sp \o PidArgA

LineNoToken == PortArgA \o Sp \o PidArgA

LineNoPid == PortArgB \o Sp \o TokenArgB

\* The port marker is there, its digits are not.
LinePortNoDigits == PortMarker \o Sp \o TokenArgA \o Sp \o PidArgA

\* A process line with none of the arguments.
LineBare == <<"U","x">>

LineSamples ==
  {LineFullA, LineFullB, LineNoPort, LineNoToken, LineNoPid,
   LinePortNoDigits, LineBare}

RECURSIVE JoinLines(_)
JoinLines(ls) ==
  IF Len(ls) = 0 THEN <<>> ELSE Head(ls) \o Nl \o JoinLines(Tail(ls))

\* The standard outputs a listing command may produce: up to MaxLines lines.
Outputs ==
  {JoinLines(ls) : ls \in UNION {[1..n -> LineSamples] : n \in 0..MaxLines}}

\* How one exec(command) settles: it rejects (Undefined: the command could
\* not run or exited non-zero) or resolves with a standard output.
ExecResults == {Undefined} \cup {Some(o) : o \in Outputs}

\* How one fs.readFile of riotgames.pem settles: it rejects (Undefined) or
\* resolves with the file's text.
ReadResults == {Undefined, Some("PEM"), Some("")}

(* ------------------------------------------------------------------ *)
(* The pure steps of authenticate and tryAuthenticate                  *)
(* ------------------------------------------------------------------ *)

DEFAULT_POLL_INTERVAL == 2500

Platforms == {"win32", "linux", "darwin", "freebsd"}

\* AuthenticationOptions: every field is optional.  authenticate() without
\* options reads every field through options?. and so behaves as the record
\* whose fields are all Undefined.
OptionsDomain ==
  [awaitConnection : {Undefined, Some(TRUE), Some(FALSE)},
   pollInterval    : {Undefined, Some(0), Some(100)},
   certificate     : {Undefined, Some(""), Some("CERT")},
   unsafe          : {Undefined, Some(TRUE), Some(FALSE)}]

\* JavaScript truthiness of an optional boolean.
TruthyFlag(x) == x = Some(TRUE)

\* JavaScript truthiness of an optional string: the empty string is falsy.
TruthyText(x) == ~IsUndefined(x) /\ Val(x) # ""

\* Supported with one more platform let through.
SupportedAlsoFreebsd(p) == p \in {"win32", "linux", "darwin", "freebsd"}

\* ['win32', 'linux', 'darwin'].includes(process.platform)
Supported(p) == p \in {"win32", "linux", "darwin"}

\* Command with the WMIC query chosen for every platform but darwin.
CommandWmicUnlessDarwin(p) ==
  IF p # "darwin"
  THEN "WMIC PROCESS WHERE name='LeagueClientUx.exe' GET CommandLine"
  ELSE "ps x -o args | grep 'LeagueClientUx'"

\* The listing command of tryAuthenticate.
Command(p) ==
  IF p = "win32"
  THEN "WMIC PROCESS WHERE name='LeagueClientUx.exe' GET CommandLine"
  ELSE "ps x -o args | grep 'LeagueClientUx'"

\* AwaitMode reading an unset awaitConnection as true.
AwaitModeDefaultOn(opts) == opts.awaitConnection # Some(FALSE)

\* if (options?.awaitConnection)
AwaitMode(opts) == TruthyFlag(opts.awaitConnection)

\* options?.pollInterval ?? DEFAULT_POLL_INTERVAL
PollDelay(opts) ==
  IF IsUndefined(opts.pollInterval) THEN DEFAULT_POLL_INTERVAL
  ELSE Val(opts.pollInterval)

\* UnsafeFlag with the typeof test inverted (!== 'undefined').
UnsafeFlagWhenDefined(opts) ==
  TruthyFlag(opts.unsafe) \/ ~IsUndefined(opts.unsafe)

\* const unsafe = options?.unsafe || typeof options?.unsafe === 'undefined'
UnsafeFlag(opts) == TruthyFlag(opts.unsafe) \/ IsUndefined(opts.unsafe)

\* NeedsFile without the unsafe test: the file is read whenever there is no
\* override.
NeedsFileIgnoringUnsafe(opts) == ~TruthyText(opts.certificate)

\* The certificate expression reaches fs.readFile.
NeedsFile(opts) == ~TruthyText(opts.certificate) /\ ~UnsafeFlag(opts)

\* Certificate with the unsafe test ahead of the override.
CertificateUnsafeFirst(opts, read) ==
  IF UnsafeFlag(opts) THEN Undefined
  ELSE IF TruthyText(opts.certificate) THEN opts.certificate
  ELSE read

\* options?.certificate || (unsafe ? undefined : <text of riotgames.pem>)
\* read is what the read of the file gave (Undefined when none was made).
Certificate(opts, read) ==
  IF TruthyText(opts.certificate) THEN opts.certificate
  ELSE IF UnsafeFlag(opts) THEN Undefined
  ELSE read

\* ParseFields without the check of the pid match: a missing pid becomes 0.
ParseFieldsPartial(out) ==
  LET port     == Match(out, PortMarker, DigitClass)
      password == Match(out, PasswordMarker, PasswordClass)
      pid      == Match(out, PidMarker, DigitClass)
  IN  IF IsUndefined(port) \/ IsUndefined(password)
      THEN Undefined
      ELSE Some([port |-> Number(Val(port)),
                 pid |-> IF IsUndefined(pid) THEN 0 ELSE Number(Val(pid)),
                 password |-> Val(password)])

\* The three matches and destructurings of tryAuthenticate and the numeric
\* conversions: Undefined when a match is null (the destructuring throws),
\* otherwise the port, pid and password of the record.
ParseFields(out) ==
  LET port     == Match(out, PortMarker, DigitClass)
      password == Match(out, PasswordMarker, PasswordClass)
      pid      == Match(out, PidMarker, DigitClass)
  IN  IF IsUndefined(port) \/ IsUndefined(password) \/ IsUndefined(pid)
      THEN Undefined
      ELSE Some([port |-> Number(Val(port)), pid |-> Number(Val(pid)),
                 password |-> Val(password)])

\* ParseFields of every output of the model, computed once.
Parsed == [o \in Outputs |-> ParseFields(o)]

\* The Credentials record returned by tryAuthenticate.
MakeCredentials(fields, cert) ==
  [port |-> fields.port, pid |-> fields.pid, password |-> fields.password,
   certificate |-> cert]

(* ------------------------------------------------------------------ *)
(* State: the process and the calls of authenticate it makes           *)
(* ------------------------------------------------------------------ *)

\* The calls of authenticate the process may make; each has its own closure
\* (options, resolve, reject, the locals of tryAuthenticate).
CallIds == {1, 2}

\* authenticate() without an options object.
NoOptions ==
  [awaitConnection |-> Undefined, pollInterval |-> Undefined,
   certificate |-> Undefined, unsafe |-> Undefined]

VARIABLES
  platform,        \* process.platform
  clientUp,        \* the League Client runs and stays running: every
                   \* listing and every read of the file now succeeds
  calls,           \* the calls the process makes
  options,         \* the options of the call
  outcome,         \* "idle" before the call, then the returned promise:
                   \* "pending", "resolved" or "rejected"
  error,           \* the rejection's error class, "none" otherwise
  credentials,     \* Some(record) once resolved, Undefined otherwise
  settleCalls,     \* resolutions and rejections delivered to the promise
  running,         \* listing commands in flight
  reading,         \* reads of riotgames.pem in flight
  timers,          \* retry timers pending
  execCount,       \* listing commands executed so far
  timerCount,      \* retry timers scheduled so far
  readCount,       \* reads of riotgames.pem started so far
  platformChecks,  \* evaluations of the platform check
  failedAttempts,  \* attempts that ended in the catch of tryAuthenticate
  delays,          \* the delay of every timer scheduled, in order
  commands,        \* the listing commands executed so far
  lastExec,        \* how the command of the current attempt settled:
                   \* "none" (not yet), "threw" or "ok"
  stdout,          \* the standard output it gave, empty otherwise
  fileText,        \* Some(text) of the last successful read of the file
  abandoned        \* the caller has dropped the returned promise

\* Every variable from options on is a function of the call.
callVars ==
  <<options, outcome, error, credentials, settleCalls, running, reading,
    timers, execCount, timerCount, readCount, platformChecks, failedAttempts,
    delays, commands, lastExec, stdout, fileText, abandoned>>

vars == <<platform, clientUp, calls, callVars>>

\* The state before any call: the process makes the calls of made, call c
\* with the options opts[c].
InitWith(made, opts) ==
  /\ clientUp = FALSE
  /\ calls = made
  /\ options = opts
  /\ outcome = [c \in CallIds |-> "idle"]
  /\ error = [c \in CallIds |-> "none"]
  /\ credentials = [c \in CallIds |-> Undefined]
  /\ settleCalls = [c \in CallIds |-> 0]
  /\ running = [c \in CallIds |-> 0]
  /\ reading = [c \in CallIds |-> 0]
  /\ timers = [c \in CallIds |-> 0]
  /\ execCount = [c \in CallIds |-> 0]
  /\ timerCount = [c \in CallIds |-> 0]
  /\ readCount = [c \in CallIds |-> 0]
  /\ platformChecks = [c \in CallIds |-> 0]
  /\ failedAttempts = [c \in CallIds |-> 0]
  /\ delays = [c \in CallIds |-> <<>>]
  /\ commands = [c \in CallIds |-> {}]
  /\ lastExec = [c \in CallIds |-> "none"]
  /\ stdout = [c \in CallIds |-> <<>>]
  /\ fileText = [c \in CallIds |-> Undefined]
  /\ abandoned = [c \in CallIds |-> FALSE]

\* One call, on any platform, with any options.
Init ==
  /\ platform \in Platforms
  /\ \E o \in OptionsDomain :
       InitWith({1}, [c \in CallIds |-> IF c = 1 THEN o ELSE NoOptions])

(* ------------------------------------------------------------------ *)
(* Operations                                                          *)
(* ------------------------------------------------------------------ *)

\* f with the value of call c replaced.
Set(f, c, v) == [f EXCEPT ![c] = v]

\* CaughtError with a catch clause that rethrows what it caught.
CaughtErrorRethrown(thrown) == thrown

\* catch { throw new ClientNotFoundError() }: whatever the try block threw.
CaughtError(thrown) == "ClientNotFoundError"

\* Succeed with a handler that resolves and still schedules self again.
SucceedKeepsPolling(c, creds) ==
  /\ settleCalls' = Set(settleCalls, c, settleCalls[c] + 1)
  /\ IF outcome[c] = "pending"
     THEN /\ outcome' = Set(outcome, c, "resolved")
          /\ credentials' = Set(credentials, c, Some(creds))
     ELSE UNCHANGED <<outcome, credentials>>
  /\ timers' = Set(timers, c, timers[c] + 1)
  /\ timerCount' = Set(timerCount, c, timerCount[c] + 1)
  /\ delays' = Set(delays, c, Append(delays[c], PollDelay(options[c])))
  /\ UNCHANGED <<error, failedAttempts>>

\* Succeed resolving the promise of every pending call.
SucceedResolvesAll(c, creds) ==
  /\ settleCalls' = Set(settleCalls, c, settleCalls[c] + 1)
  /\ outcome' = [d \in CallIds |->
                   IF outcome[d] = "pending" THEN "resolved" ELSE outcome[d]]
  /\ credentials' = [d \in CallIds |->
                       IF outcome[d] = "pending" THEN Some(creds)
                       ELSE credentials[d]]
  /\ UNCHANGED <<error, timers, timerCount, delays, failedAttempts>>

\* resolve(result), or the return of tryAuthenticate in immediate mode: the
\* promise takes the record unless it is settled already.
Succeed(c, creds) ==
  /\ settleCalls' = Set(settleCalls, c, settleCalls[c] + 1)
  /\ IF outcome[c] = "pending"
     THEN /\ outcome' = Set(outcome, c, "resolved")
          /\ credentials' = Set(credentials, c, Some(creds))
     ELSE UNCHANGED <<outcome, credentials>>
  /\ UNCHANGED <<error, timers, timerCount, delays, failedAttempts>>

\* Fail with a .catch handler that calls reject instead of setTimeout.
FailRejects(c, thrown) ==
  /\ failedAttempts' = Set(failedAttempts, c, failedAttempts[c] + 1)
  /\ settleCalls' = Set(settleCalls, c, settleCalls[c] + 1)
  /\ IF outcome[c] = "pending"
     THEN /\ outcome' = Set(outcome, c, "rejected")
          /\ error' = Set(error, c, CaughtError(thrown))
     ELSE UNCHANGED <<outcome, error>>
  /\ UNCHANGED <<credentials, timers, timerCount, delays>>

\* Fail with a .catch handler that schedules self twice.
FailSchedulesTwice(c, thrown) ==
  /\ failedAttempts' = Set(failedAttempts, c, failedAttempts[c] + 1)
  /\ IF AwaitMode(options[c])
     THEN /\ timers' = Set(timers, c, timers[c] + 2)
          /\ timerCount' = Set(timerCount, c, timerCount[c] + 2)
          /\ delays' = Set(delays, c,
                           Append(Append(delays[c], PollDelay(options[c])),
                                  PollDelay(options[c])))
          /\ UNCHANGED <<outcome, error, credentials, settleCalls>>
     ELSE /\ settleCalls' = Set(settleCalls, c, settleCalls[c] + 1)
          /\ IF outcome[c] = "pending"
             THEN /\ outcome' = Set(outcome, c, "rejected")
                  /\ error' = Set(error, c, CaughtError(thrown))
             ELSE UNCHANGED <<outcome, error>>
          /\ UNCHANGED <<credentials, timers, timerCount, delays>>

\* Fail with a delay that doubles with every failed attempt.
FailBacksOff(c, thrown) ==
  /\ failedAttempts' = Set(failedAttempts, c, failedAttempts[c] + 1)
  /\ IF AwaitMode(options[c])
     THEN /\ timers' = Set(timers, c, timers[c] + 1)
          /\ timerCount' = Set(timerCount, c, timerCount[c] + 1)
          /\ delays' = Set(delays, c,
                           Append(delays[c],
                                  PollDelay(options[c])
                                    * (failedAttempts[c] + 1)))
          /\ UNCHANGED <<outcome, error, credentials, settleCalls>>
     ELSE /\ settleCalls' = Set(settleCalls, c, settleCalls[c] + 1)
          /\ IF outcome[c] = "pending"
             THEN /\ outcome' = Set(outcome, c, "rejected")
                  /\ error' = Set(error, c, CaughtError(thrown))
             ELSE UNCHANGED <<outcome, error>>
          /\ UNCHANGED <<credentials, timers, timerCount, delays>>

\* The try block of tryAuthenticate threw thrown and its catch throws
\* ClientNotFoundError.  In await mode the .catch handler schedules self again
\* after the poll delay; in immediate mode the rejection is the rejection of
\* the call.
Fail(c, thrown) ==
  /\ failedAttempts' = Set(failedAttempts, c, failedAttempts[c] + 1)
  /\ IF AwaitMode(options[c])
     THEN /\ timers' = Set(timers, c, timers[c] + 1)
          /\ timerCount' = Set(timerCount, c, timerCount[c] + 1)
          /\ delays' = Set(delays, c, Append(delays[c], PollDelay(options[c])))
          /\ UNCHANGED <<outcome, error, credentials, settleCalls>>
     ELSE /\ settleCalls' = Set(settleCalls, c, settleCalls[c] + 1)
          /\ IF outcome[c] = "pending"
             THEN /\ outcome' = Set(outcome, c, "rejected")
                  /\ error' = Set(error, c, CaughtError(thrown))
             ELSE UNCHANGED <<outcome, error>>
          /\ UNCHANGED <<credentials, timers, timerCount, delays>>

\* authenticate(options) up to its first suspension: the platform check, then
\* tryAuthenticate() up to await exec(command), in either mode.
Authenticate(c) ==
  /\ c \in calls
  /\ outcome[c] = "idle"
  /\ platformChecks' = Set(platformChecks, c, platformChecks[c] + 1)
  /\ IF ~Supported(platform)
     THEN /\ outcome' = Set(outcome, c, "rejected")
          /\ error' = Set(error, c, "InvalidPlatformError")
          /\ settleCalls' = Set(settleCalls, c, settleCalls[c] + 1)
          /\ UNCHANGED <<running, execCount, commands>>
     ELSE /\ outcome' = Set(outcome, c, "pending")
          /\ running' = Set(running, c, running[c] + 1)
          /\ execCount' = Set(execCount, c, execCount[c] + 1)
          /\ commands' = Set(commands, c, commands[c] \cup {Command(platform)})
          /\ UNCHANGED <<error, settleCalls>>
  /\ UNCHANGED <<platform, clientUp, calls, options, credentials, reading,
                 timers, timerCount, readCount, failedAttempts, delays,
                 lastExec, stdout, fileText, abandoned>>

\* exec(command) of call c settles with one of results and tryAuthenticate
\* runs on to its next suspension (the read of the certificate file) or to
\* its end.  With the client up the listing holds the client's arguments.
ExecSettlesFrom(c, results) ==
  /\ running[c] > 0
  /\ \E r \in results :
       /\ clientUp => (~IsUndefined(r) /\ ~IsUndefined(Parsed[Val(r)]))
       /\ running' = Set(running, c, running[c] - 1)
       /\ lastExec' = Set(lastExec, c, IF IsUndefined(r) THEN "threw" ELSE "ok")
       /\ stdout' = Set(stdout, c, IF IsUndefined(r) THEN <<>> ELSE Val(r))
       /\ LET fields == IF IsUndefined(r) THEN Undefined
                        ELSE Parsed[Val(r)]
          IN  IF IsUndefined(fields)
              THEN /\ Fail(c, IF IsUndefined(r) THEN "ExecException"
                              ELSE "TypeError")
                   /\ UNCHANGED <<reading, readCount>>
              ELSE IF NeedsFile(options[c])
              THEN /\ reading' = Set(reading, c, reading[c] + 1)
                   /\ readCount' = Set(readCount, c, readCount[c] + 1)
                   /\ UNCHANGED <<outcome, error, credentials, settleCalls,
                                  timers, timerCount, delays, failedAttempts>>
              ELSE /\ Succeed(c, MakeCredentials(Val(fields),
                                   Certificate(options[c], Undefined)))
                   /\ UNCHANGED <<reading, readCount>>
  /\ UNCHANGED <<platform, clientUp, calls, options, execCount,
                 platformChecks, commands, fileText, abandoned>>

ExecSettles(c) == ExecSettlesFrom(c, ExecResults)

\* fs.readFile(riotgames.pem) settles inside the try block of tryAuthenticate.
ReadSettles(c) ==
  /\ reading[c] > 0
  /\ \E r \in ReadResults :
       /\ clientUp => ~IsUndefined(r)
       /\ reading' = Set(reading, c, reading[c] - 1)
       /\ fileText' = Set(fileText, c, r)
       /\ IF IsUndefined(r)
          THEN Fail(c, "ReadError")
          ELSE Succeed(c, MakeCredentials(Val(Parsed[stdout[c]]),
                                          Certificate(options[c], r)))
  /\ UNCHANGED <<platform, clientUp, calls, options, running, execCount,
                 readCount, platformChecks, commands, lastExec, stdout,
                 abandoned>>

\* TimerFires with setInterval in place of setTimeout: the timer stays.
TimerFiresRepeats(c) ==
  /\ timers[c] > 0
  /\ execCount[c] < MaxAttempts \/ clientUp
  /\ running' = Set(running, c, running[c] + 1)
  /\ execCount' = Set(execCount, c, execCount[c] + 1)
  /\ commands' = Set(commands, c, commands[c] \cup {Command(platform)})
  /\ lastExec' = Set(lastExec, c, "none")
  /\ stdout' = Set(stdout, c, <<>>)
  /\ UNCHANGED <<platform, clientUp, calls, options, outcome, error,
                 credentials, settleCalls, reading, timers, timerCount,
                 readCount, platformChecks, failedAttempts, delays, fileText,
                 abandoned>>

\* TimerFires with a loop that gives up after two commands.
TimerFiresGivesUp(c) ==
  /\ timers[c] > 0
  /\ execCount[c] < 2
  /\ timers' = Set(timers, c, timers[c] - 1)
  /\ running' = Set(running, c, running[c] + 1)
  /\ execCount' = Set(execCount, c, execCount[c] + 1)
  /\ commands' = Set(commands, c, commands[c] \cup {Command(platform)})
  /\ lastExec' = Set(lastExec, c, "none")
  /\ stdout' = Set(stdout, c, <<>>)
  /\ UNCHANGED <<platform, clientUp, calls, options, outcome, error,
                 credentials, settleCalls, reading, timerCount, readCount,
                 platformChecks, failedAttempts, delays, fileText, abandoned>>

\* The retry timer fires: self(resolve, reject) calls tryAuthenticate() again.
\* The model follows a call for MaxAttempts commands, and for as long as it
\* takes once the client is up.
TimerFires(c) ==
  /\ timers[c] > 0
  /\ execCount[c] < MaxAttempts \/ clientUp
  /\ timers' = Set(timers, c, timers[c] - 1)
  /\ running' = Set(running, c, running[c] + 1)
  /\ execCount' = Set(execCount, c, execCount[c] + 1)
  /\ commands' = Set(commands, c, commands[c] \cup {Command(platform)})
  /\ lastExec' = Set(lastExec, c, "none")
  /\ stdout' = Set(stdout, c, <<>>)
  /\ UNCHANGED <<platform, clientUp, calls, options, outcome, error,
                 credentials, settleCalls, reading, timerCount, readCount,
                 platformChecks, failedAttempts, delays, fileText, abandoned>>

\* The caller drops the promise it was given.  authenticate takes no
\* cancellation handle and the promise has none, so nothing else changes.
Abandon(c) ==
  /\ outcome[c] = "pending"
  /\ ~abandoned[c]
  /\ abandoned' = Set(abandoned, c, TRUE)
  /\ UNCHANGED <<platform, clientUp, calls, options, outcome, error,
                 credentials, settleCalls, running, reading, timers,
                 execCount, timerCount, readCount, platformChecks,
                 failedAttempts, delays, commands, lastExec, stdout,
                 fileText>>

Next ==
  \E c \in CallIds :
    \/ Authenticate(c)
    \/ ExecSettles(c)
    \/ ReadSettles(c)
    \/ TimerFires(c)
    \/ Abandon(c)

Spec == Init /\ [][Next]_vars

TypeOK ==
  /\ platform \in Platforms
  /\ clientUp \in BOOLEAN
  /\ calls \subseteq CallIds
  /\ \A c \in CallIds :
       /\ options[c] \in OptionsDomain
       /\ outcome[c] \in {"idle", "pending", "resolved", "rejected"}
       /\ error[c] \in {"none", "InvalidPlatformError", "ClientNotFoundError"}
       /\ running[c] \in 0..1
       /\ reading[c] \in 0..1
       /\ timers[c] \in 0..1
       /\ execCount[c] \in 0..(MaxAttempts + 1)
       /\ lastExec[c] \in {"none", "threw", "ok"}
       /\ abandoned[c] \in BOOLEAN

(* ------------------------------------------------------------------ *)
(* Properties                                                          *)
(* ------------------------------------------------------------------ *)

SupportedPlatforms == {"win32", "linux", "darwin"}

ImmediateCall(c) == options[c].awaitConnection \in {Undefined, Some(FALSE)}

AwaitCall(c) == options[c].awaitConnection = Some(TRUE)

\* The pattern /lit([class]+)/ has a match somewhere in s.
HasMatch(s, lit, class) == \E i \in 1..Len(s) : MatchesAt(s, i, lit, class)

\* For every output of the model: one of the three patterns has no match.
MarkerMissing ==
  [o \in Outputs |->
     \/ ~HasMatch(o, PortMarker, DigitClass)
     \/ ~HasMatch(o, PasswordMarker, PasswordClass)
     \/ ~HasMatch(o, PidMarker, DigitClass)]

\* C1: in immediate mode the call makes exactly one attempt and takes its
\* outcome: once the attempt has failed the call is rejected with
\* ClientNotFoundError, the listing command has run exactly once, and no
\* timer is ever scheduled, whatever pollInterval is.
C1_ImmediateSingleAttempt ==
  \A c \in CallIds :
  (ImmediateCall(c) /\ platform \in SupportedPlatforms /\ outcome[c] # "idle") =>
    /\ execCount[c] = 1
    /\ timerCount[c] = 0 /\ timers[c] = 0 /\ delays[c] = <<>>
    /\ failedAttempts[c] <= 1
    /\ (outcome[c] = "pending") = (running[c] + reading[c] = 1)
    /\ running[c] + reading[c] <= 1
    /\ (failedAttempts[c] = 1) =
         (outcome[c] = "rejected" /\ error[c] = "ClientNotFoundError")
    /\ (outcome[c] = "resolved") =
         (failedAttempts[c] = 0 /\ running[c] + reading[c] = 0)

C1_Witness ==
  \E c \in CallIds :
  /\ ImmediateCall(c)
  /\ options[c].pollInterval = Some(100)
  /\ outcome[c] = "rejected"
  /\ error[c] = "ClientNotFoundError"
  /\ failedAttempts[c] = 1
  /\ execCount[c] = 1

\* C2: in await mode on a supported platform the promise is never rejected:
\* after every failed attempt it is still pending with the next attempt
\* scheduled, and only a successful attempt settles it.
C2_AwaitNeverRejects ==
  \A c \in CallIds :
  (AwaitCall(c) /\ platform \in SupportedPlatforms /\ outcome[c] # "idle") =>
    /\ outcome[c] \in {"pending", "resolved"}
    /\ error[c] = "none"
    /\ (outcome[c] = "resolved") = (credentials[c] # Undefined)
    /\ outcome[c] = "resolved" => lastExec[c] = "ok" /\ ~MarkerMissing[stdout[c]]
    /\ (outcome[c] = "pending" /\ running[c] = 0 /\ reading[c] = 0) =>
         (timers[c] = 1 /\ failedAttempts[c] >= 1)
    /\ (outcome[c] = "pending") = (running[c] + reading[c] + timers[c] = 1)

C2_Witness ==
  \E c \in CallIds :
  /\ AwaitCall(c)
  /\ failedAttempts[c] = 2
  /\ outcome[c] = "pending"
  /\ timers[c] = 1
  /\ running[c] = 0

\* C3: in await mode, when the first k attempts fail and attempt k+1
\* succeeds, the call resolves with the credentials of attempt k+1, the
\* listing command has run exactly k+1 times, and exactly one wait of
\* pollInterval lies between each failed attempt and the next attempt: k
\* waits in all, none before the first attempt.
C3_ResolvesAfterKFailures ==
  \A c \in CallIds :
  (AwaitCall(c) /\ platform \in SupportedPlatforms /\ outcome[c] # "idle") =>
    /\ timerCount[c] = failedAttempts[c]
    /\ Len(delays[c]) = failedAttempts[c]
    /\ \A i \in 1..Len(delays[c]) :
         delays[c][i] = IF options[c].pollInterval = Undefined THEN 2500
                     ELSE Val(options[c].pollInterval)
    /\ execCount[c] = 1 + timerCount[c] - timers[c]
    /\ outcome[c] = "resolved" =>
         /\ execCount[c] = failedAttempts[c] + 1
         /\ timers[c] = 0 /\ running[c] = 0 /\ reading[c] = 0
         /\ lastExec[c] = "ok"
         /\ Val(credentials[c]).port = Val(Parsed[stdout[c]]).port
         /\ Val(credentials[c]).pid = Val(Parsed[stdout[c]]).pid
         /\ Val(credentials[c]).password = Val(Parsed[stdout[c]]).password

C3_Witness ==
  \E c \in CallIds :
  /\ AwaitCall(c)
  /\ options[c].pollInterval = Some(100)
  /\ outcome[c] = "resolved"
  /\ failedAttempts[c] = 2
  /\ execCount[c] = 3
  /\ delays[c] = <<100, 100>>

\* C4: on a platform other than win32, linux and darwin the call fails with
\* InvalidPlatformError in either mode, with no listing command executed and
\* no timer scheduled; the platform check is evaluated once per call, before
\* the first attempt, and not again on later attempts.
C4_UnsupportedPlatform ==
  \A c \in CallIds :
  /\ (outcome[c] = "idle") = (platformChecks[c] = 0)
  /\ platformChecks[c] <= 1
  /\ execCount[c] > 0 => platformChecks[c] = 1
  /\ (platform \notin SupportedPlatforms /\ outcome[c] # "idle") =>
       /\ outcome[c] = "rejected"
       /\ error[c] = "InvalidPlatformError"
       /\ execCount[c] = 0 /\ running[c] = 0
       /\ timerCount[c] = 0 /\ timers[c] = 0
       /\ readCount[c] = 0
  /\ error[c] = "InvalidPlatformError" => platform \notin SupportedPlatforms

C4_Witness ==
  \E c \in CallIds :
  /\ platform = "freebsd"
  /\ AwaitCall(c)
  /\ outcome[c] = "rejected"
  /\ error[c] = "InvalidPlatformError"
  /\ execCount[c] = 0
  /\ platformChecks[c] = 1

\* C5: extraction is all-or-nothing: when one of the three patterns has no
\* match in the output the attempt fails with ClientNotFoundError and no
\* record is returned; every record returned has port, password and pid set.
C5_AllOrNothing ==
  \A c \in CallIds :
  /\ (lastExec[c] = "ok" /\ MarkerMissing[stdout[c]]) =>
       /\ credentials[c] = Undefined
       /\ outcome[c] # "resolved"
       /\ failedAttempts[c] >= 1
       /\ reading[c] = 0
       /\ ImmediateCall(c) => (outcome[c] = "rejected" /\ error[c] = "ClientNotFoundError")
       /\ AwaitCall(c) => timers[c] = 1
  /\ credentials[c] # Undefined =>
       /\ lastExec[c] = "ok"
       /\ HasMatch(stdout[c], PortMarker, DigitClass)
       /\ HasMatch(stdout[c], PasswordMarker, PasswordClass)
       /\ HasMatch(stdout[c], PidMarker, DigitClass)
       /\ Val(credentials[c]).port \in Nat
       /\ Val(credentials[c]).pid \in Nat
       /\ Len(Val(credentials[c]).password) > 0

C5_Witness ==
  \E c \in CallIds :
  /\ lastExec[c] = "ok"
  /\ stdout[c] = LineNoPid \o Nl
  /\ failedAttempts[c] = 1
  /\ outcome[c] = "rejected"
  /\ error[c] = "ClientNotFoundError"

NoOverride(c) == options[c].certificate = Undefined

\* C6, as stated: with unsafe unset and no certificate override, a
\* successful attempt returns the text of the bundled certificate file.
C6_UnsetUnsafeGivesBundled ==
  \A c \in CallIds :
  (options[c].unsafe = Undefined /\ NoOverride(c) /\ outcome[c] = "resolved") =>
    /\ fileText[c] # Undefined
    /\ Val(credentials[c]).certificate = fileText[c]

\* C6, amended: with unsafe explicitly false and no certificate override, a
\* successful attempt returns the text of the bundled certificate file.
C6_ExplicitSafeGivesBundled ==
  \A c \in CallIds :
  (options[c].unsafe = Some(FALSE) /\ NoOverride(c) /\ outcome[c] = "resolved") =>
    /\ readCount[c] >= 1
    /\ fileText[c] # Undefined
    /\ Val(credentials[c]).certificate = fileText[c]

C6_Witness ==
  \E c \in CallIds :
  /\ options[c].unsafe = Some(FALSE)
  /\ NoOverride(c)
  /\ outcome[c] = "resolved"
  /\ fileText[c] = Some("PEM")
  /\ Val(credentials[c]).certificate = Some("PEM")

\* C7, as stated: with any certificate override string, the empty string
\* included, a successful attempt returns that string as the certificate,
\* for every value of unsafe, and the bundled file is not read.
C7_AnyOverrideVerbatim ==
  \A c \in CallIds :
  (options[c].certificate # Undefined /\ outcome[c] = "resolved") =>
    /\ Val(credentials[c]).certificate = options[c].certificate
    /\ readCount[c] = 0

\* C7, amended: with any non-empty certificate override string, a successful
\* attempt returns that string as the certificate, for every value of
\* unsafe, and the bundled file is not read.
C7_NonEmptyOverrideVerbatim ==
  \A c \in CallIds :
  (/\ options[c].certificate # Undefined
   /\ options[c].certificate # Some("")
   /\ outcome[c] = "resolved") =>
    /\ Val(credentials[c]).certificate = options[c].certificate
    /\ readCount[c] = 0
    /\ fileText[c] = Undefined

C7_Witness ==
  \E c \in CallIds :
  /\ options[c].certificate = Some("CERT")
  /\ options[c].unsafe = Some(FALSE)
  /\ outcome[c] = "resolved"
  /\ Val(credentials[c]).certificate = Some("CERT")

\* C8: a failed read of the bundled certificate is fatal and is no discovery
\* failure: the step in which the read fails rejects the call with an error
\* other than ClientNotFoundError and schedules no further attempt.
C8_ReadFailureIsFatal ==
  [][\A c \in CallIds : (reading'[c] < reading[c] /\ fileText'[c] = Undefined) =>
       /\ outcome'[c] = "rejected"
       /\ error'[c] # "ClientNotFoundError"
       /\ timerCount'[c] = timerCount[c]
       /\ timers'[c] = 0]_vars

\* C9: once the caller has abandoned an await-mode call, no further listing
\* command is executed and no retry timer is pending or scheduled.
C9_NoAttemptAfterAbandon ==
  [][\A c \in CallIds : (AwaitCall(c) /\ abandoned[c]) =>
       /\ execCount'[c] = execCount[c]
       /\ timerCount'[c] = timerCount[c]
       /\ timers'[c] = 0]_vars

\* C10, as stated: the bundled file is read only with unsafe explicitly
\* false and no override supplied; with unsafe true and no override a
\* successful attempt returns no certificate and the file is never read.
C10_ReadOnlyWithoutOverride ==
  \A c \in CallIds :
  /\ readCount[c] > 0 => (options[c].unsafe = Some(FALSE) /\ NoOverride(c))
  /\ (options[c].unsafe = Some(TRUE) /\ NoOverride(c) /\ outcome[c] = "resolved") =>
       (Val(credentials[c]).certificate = Undefined /\ readCount[c] = 0)

\* C10, amended: the bundled file is read only with unsafe explicitly false
\* and no non-empty override supplied; with unsafe true and no override a
\* successful attempt returns no certificate and the file is never read.
C10_ReadOnlyWithoutNonEmptyOverride ==
  \A c \in CallIds :
  /\ readCount[c] > 0 =>
       /\ options[c].unsafe = Some(FALSE)
       /\ options[c].certificate \in {Undefined, Some("")}
  /\ (options[c].unsafe = Some(TRUE) /\ NoOverride(c) /\ outcome[c] # "idle") =>
       /\ readCount[c] = 0 /\ reading[c] = 0 /\ fileText[c] = Undefined
       /\ outcome[c] = "resolved" => Val(credentials[c]).certificate = Undefined

C10_Witness ==
  \E c \in CallIds :
  /\ options[c].unsafe = Some(TRUE)
  /\ NoOverride(c)
  /\ outcome[c] = "resolved"
  /\ Val(credentials[c]).certificate = Undefined
  /\ readCount[c] = 0

(* ------------------------------------------------------------------ *)
(* Extraction                                                          *)
(* ------------------------------------------------------------------ *)

\* The attempt whose command gave stdout has run to its end without a failed
\* read of the certificate file.
AttemptPastCertificate(c) ==
  /\ lastExec[c] = "ok"
  /\ reading[c] = 0
  /\ (options[c].unsafe = Some(FALSE) /\ options[c].certificate \in {Undefined, Some("")})
       => fileText[c] # Undefined

\* The literal lit occurs somewhere in s.
Occurs(s, lit) == \E i \in 1..Len(s) : StartsAt(s, i, lit)

\* The maximal run of class characters of s that starts at position from.
RunFrom(s, from, class) ==
  LET ends == {e \in (from - 1)..Len(s) :
                 /\ \A k \in from..e : s[k] \in class
                 /\ e = Len(s) \/ s[e + 1] \notin class}
  IN  SubSeq(s, from, CHOOSE e \in ends : TRUE)

\* The run of class characters that follows the first occurrence of lit in s.
RunAfterFirstMarker(s, lit, class) ==
  LET first == CHOOSE i \in 1..Len(s) :
                 /\ StartsAt(s, i, lit)
                 /\ \A k \in 1..(i - 1) : ~StartsAt(s, k, lit)
  IN  RunFrom(s, first + Len(lit), class)

\* The run of class characters that follows the first occurrence of lit in s
\* that has a class character after it.
RunAfterFirstMatch(s, lit, class) ==
  LET first == CHOOSE i \in 1..Len(s) :
                 /\ MatchesAt(s, i, lit, class)
                 /\ \A k \in 1..(i - 1) : ~MatchesAt(s, k, lit, class)
  IN  RunFrom(s, first + Len(lit), class)

DigitOrder == <<"0","1","2","3","4","5","6","7","8","9">>

\* The base-10 value of a run of digits, read from the left.
RECURSIVE DecimalFrom(_, _, _)
DecimalFrom(ds, k, acc) ==
  IF k > Len(ds) THEN acc
  ELSE DecimalFrom(ds, k + 1,
         10 * acc + (CHOOSE d \in 1..10 : DigitOrder[d] = ds[k]) - 1)

Decimal(ds) == DecimalFrom(ds, 1, 0)

\* For every output of the model: the three literal markers all occur.
MarkersPresent ==
  [o \in Outputs |->
     Occurs(o, PortMarker) /\ Occurs(o, PasswordMarker) /\ Occurs(o, PidMarker)]

\* For every output that holds the three markers: the fields read after the
\* first occurrence of each marker.
FieldsAfterFirstMarkers ==
  [o \in {x \in Outputs : MarkersPresent[x]} |->
     [port     |-> Decimal(RunAfterFirstMarker(o, PortMarker, Digits)),
      pid      |-> Decimal(RunAfterFirstMarker(o, PidMarker, Digits)),
      password |-> RunAfterFirstMarker(o, PasswordMarker,
                                       WordChars \cup {"-"})]]

\* For every output in which the three patterns match: the fields read after
\* the first match of each pattern.
FieldsAfterFirstMatches ==
  [o \in {x \in Outputs : ~MarkerMissing[x]} |->
     [port     |-> Decimal(RunAfterFirstMatch(o, PortMarker, Digits)),
      pid      |-> Decimal(RunAfterFirstMatch(o, PidMarker, Digits)),
      password |-> RunAfterFirstMatch(o, PasswordMarker,
                                      WordChars \cup {"-"})]]

FieldsOf(creds) ==
  [port |-> creds.port, pid |-> creds.pid, password |-> creds.password]

\* C11, as stated: for every output that contains the three markers, an
\* attempt returns the port and pid as the base-10 values of the digit runs
\* after the first --app-port= and --app-pid=, and the password as the
\* maximal run of word characters and hyphens after the first
\* --remoting-auth-token=.
C11_FieldsAfterFirstMarkers ==
  \A c \in CallIds :
  (AttemptPastCertificate(c) /\ MarkersPresent[stdout[c]]) =>
    /\ credentials[c] # Undefined
    /\ FieldsOf(Val(credentials[c])) = FieldsAfterFirstMarkers[stdout[c]]

\* C11, amended: for every output in which the three patterns match (each
\* marker occurs with a character of its class after it), an attempt returns
\* the port and pid as the base-10 values of the digit runs after the first
\* such --app-port= and --app-pid=, and the password as the maximal run of
\* word characters and hyphens after the first such --remoting-auth-token=.
C11_FieldsAfterFirstMatches ==
  \A c \in CallIds :
  /\ (AttemptPastCertificate(c) /\ ~MarkerMissing[stdout[c]]) =>
       /\ credentials[c] # Undefined
       /\ FieldsOf(Val(credentials[c])) = FieldsAfterFirstMatches[stdout[c]]
  /\ (AttemptPastCertificate(c) /\ stdout[c] = LineFullA \o Nl) =>
       /\ credentials[c] # Undefined
       /\ Val(credentials[c]).port = 56789
       /\ Val(credentials[c]).password = <<"a","b","c","-","1","2","3">>
       /\ Val(credentials[c]).pid = 4321

C11_Witness ==
  \E c \in CallIds :
  /\ stdout[c] = LinePortNoDigits \o Nl \o LineFullB \o Nl
  /\ outcome[c] = "resolved"
  /\ Val(credentials[c]).port = 80
  /\ Val(credentials[c]).password = <<"a","b","c","-","1","2","3">>
  /\ Val(credentials[c]).pid = 4321

(* ------------------------------------------------------------------ *)
(* The listing command                                                 *)
(* ------------------------------------------------------------------ *)

\* C12: every supported platform has exactly one listing command, not empty,
\* the same on every attempt: the WMIC query on win32, the ps/grep pipeline
\* on linux and on darwin.
C12_CommandPerPlatform ==
  \A c \in CallIds :
    /\ (execCount[c] = 0) = (commands[c] = {})
    /\ execCount[c] > 0 =>
         /\ platform \in SupportedPlatforms
         /\ Cardinality(commands[c]) = 1
         /\ "" \notin commands[c]
         /\ platform = "win32" =>
              commands[c] =
                {"WMIC PROCESS WHERE name='LeagueClientUx.exe' GET CommandLine"}
         /\ platform \in {"linux", "darwin"} =>
              commands[c] = {"ps x -o args | grep 'LeagueClientUx'"}

C12_Witness ==
  \E c \in CallIds :
    /\ platform = "linux"
    /\ execCount[c] = 3
    /\ commands[c] = {"ps x -o args | grep 'LeagueClientUx'"}

(* ------------------------------------------------------------------ *)
(* Progress of the polling loop                                        *)
(* ------------------------------------------------------------------ *)

\* The listings of the progress check: the command fails, prints nothing,
\* prints a line without the pid, prints a client's line.
LiveResults ==
  {Undefined, Some(<<>>), Some(LineNoPid \o Nl), Some(LineFullA \o Nl)}

ExecSettlesLive(c) == ExecSettlesFrom(c, LiveResults)

\* The League Client starts, and stays up.
ClientStarts ==
  /\ ~clientUp
  /\ clientUp' = TRUE
  /\ UNCHANGED <<platform, calls, callVars>>

LiveNext ==
  \/ ClientStarts
  \/ \E c \in CallIds :
       \/ Authenticate(c)
       \/ ExecSettlesLive(c)
       \/ ReadSettles(c)
       \/ TimerFires(c)
       \/ Abandon(c)

\* The event loop runs every timer that is due and every completion callback
\* of a child process or of a file read.
Fairness ==
  \A c \in CallIds :
    /\ WF_vars(TimerFires(c))
    /\ WF_vars(ExecSettlesLive(c))
    /\ WF_vars(ReadSettles(c))

LiveSpec == Init /\ [][LiveNext]_vars /\ Fairness

\* C13: in await mode, once every attempt would succeed (the client is up
\* and stays up), the call eventually resolves with credentials; until then
\* the loop never gives up, however many attempts have failed: a pending
\* call always has a command in flight, a read in flight or a timer pending.
C13_EventuallyResolves ==
  /\ [](\A c \in CallIds :
          (AwaitCall(c) /\ outcome[c] = "pending") =>
            running[c] + reading[c] + timers[c] = 1)
  /\ \A c \in CallIds :
       (clientUp /\ AwaitCall(c) /\ outcome[c] = "pending")
         ~> (outcome[c] = "resolved" /\ credentials[c] # Undefined)

C13_Witness ==
  \E c \in CallIds :
    /\ clientUp
    /\ AwaitCall(c)
    /\ failedAttempts[c] = MaxAttempts
    /\ execCount[c] = MaxAttempts + 1
    /\ outcome[c] = "resolved"

(* ------------------------------------------------------------------ *)
(* Shape of one call                                                   *)
(* ------------------------------------------------------------------ *)

\* C14: the attempts of a call never overlap: at most one of a running
\* listing command (with its certificate read) and a pending retry timer
\* exists, and a new attempt starts only once the previous attempt has
\* ended in failure and its timer has fired.
C14_AttemptsNeverOverlap ==
  [][\A c \in CallIds :
       /\ running[c] + reading[c] + timers[c] <= 1
       /\ running'[c] + reading'[c] + timers'[c] <= 1
       /\ (execCount'[c] # execCount[c] /\ execCount[c] > 0) =>
            /\ execCount'[c] = execCount[c] + 1
            /\ running[c] = 0 /\ reading[c] = 0
            /\ failedAttempts[c] = execCount[c]
            /\ timers[c] = 1 /\ timers'[c] = 0
            /\ running'[c] = 1]_vars

C14_Witness ==
  \E c \in CallIds :
    /\ execCount[c] = 3
    /\ failedAttempts[c] = 2
    /\ running[c] = 1
    /\ timers[c] = 0

\* The state of the call in the machine Idle -> Attempting ->
\* {Succeeded | Failed | Waiting -> Attempting}.
PhaseOf(o, inFlight, pendingTimers) ==
  CASE o = "idle" -> "Idle"
    [] o = "resolved" -> "Succeeded"
    [] o = "rejected" -> "Failed"
    [] o = "pending" /\ inFlight = 1 /\ pendingTimers = 0 -> "Attempting"
    [] o = "pending" /\ inFlight = 0 /\ pendingTimers = 1 -> "Waiting"
    [] OTHER -> "None"

Phase(c) == PhaseOf(outcome[c], running[c] + reading[c], timers[c])

PhaseAfter(c) == PhaseOf(outcome'[c], running'[c] + reading'[c], timers'[c])

\* C15: the call follows the state machine and its terminal states absorb:
\* Waiting occurs only in await mode, Failed only in immediate mode or by the
\* platform check; once Succeeded or Failed the result has been settled
\* exactly once and never changes, and no command is executed and no timer
\* is scheduled afterwards.
C15_StateMachine ==
  /\ [](\A c \in CallIds :
          /\ Phase(c) # "None"
          /\ (Phase(c) = "Waiting" \/ timerCount[c] > 0) => AwaitCall(c)
          /\ Phase(c) = "Failed" =>
               \/ ImmediateCall(c) /\ error[c] = "ClientNotFoundError"
                    /\ platform \in SupportedPlatforms
               \/ platform \notin SupportedPlatforms
                    /\ error[c] = "InvalidPlatformError"
          /\ Phase(c) \in {"Succeeded", "Failed"} =>
               /\ settleCalls[c] = 1
               /\ running[c] = 0 /\ reading[c] = 0 /\ timers[c] = 0
          /\ Phase(c) \notin {"Succeeded", "Failed"} => settleCalls[c] = 0
          /\ (Phase(c) = "Succeeded") = (credentials[c] # Undefined)
          /\ (Phase(c) = "Failed") = (error[c] # "none"))
  /\ [][\A c \in CallIds :
          /\ <<Phase(c), PhaseAfter(c)>> \in
               {<<"Idle", "Idle">>, <<"Idle", "Attempting">>,
                <<"Idle", "Failed">>,
                <<"Attempting", "Attempting">>, <<"Attempting", "Succeeded">>,
                <<"Attempting", "Failed">>, <<"Attempting", "Waiting">>,
                <<"Waiting", "Waiting">>, <<"Waiting", "Attempting">>,
                <<"Succeeded", "Succeeded">>, <<"Failed", "Failed">>}
          /\ Phase(c) \in {"Succeeded", "Failed"} =>
               /\ outcome'[c] = outcome[c]
               /\ error'[c] = error[c]
               /\ credentials'[c] = credentials[c]
               /\ settleCalls'[c] = settleCalls[c]
               /\ execCount'[c] = execCount[c]
               /\ timerCount'[c] = timerCount[c]
               /\ readCount'[c] = readCount[c]]_vars

C15_Witness ==
  \E c \in CallIds :
    /\ AwaitCall(c)
    /\ Phase(c) = "Succeeded"
    /\ timerCount[c] = 2
    /\ settleCalls[c] = 1
    /\ abandoned[c]

\* C16: every wait between a failed attempt and the next one in await mode
\* uses the same delay, the caller's pollInterval when one is supplied and
\* the default 2500 ms otherwise; the delay does not change with the number
\* of failed attempts, and every failure, whatever its number, schedules the
\* next attempt (there is no maximum attempt count).
C16_ConstantDelay ==
  \A c \in CallIds :
    /\ \A i \in DOMAIN delays[c] :
         delays[c][i] =
           IF options[c].pollInterval # Undefined
           THEN Val(options[c].pollInterval)
           ELSE 2500
    /\ AwaitCall(c) =>
         /\ Len(delays[c]) = failedAttempts[c]
         /\ timerCount[c] = failedAttempts[c]
         /\ outcome[c] = "rejected" => platform \notin SupportedPlatforms
         /\ (outcome[c] = "pending" /\ failedAttempts[c] = execCount[c]) =>
              timers[c] = 1

C16_Witness ==
  \E c \in CallIds :
    /\ options[c].pollInterval = Undefined
    /\ delays[c] = <<2500, 2500, 2500>>
    /\ failedAttempts[c] = 3
    /\ timers[c] = 1

\* The attempt of call c failed before the certificate was handled: the
\* listing command threw (or exited non-zero), or its output was empty or
\* lacked a match of one of the three patterns.
FailedBeforeCertificate(c) ==
  \/ lastExec[c] = "threw"
  \/ lastExec[c] = "ok" /\ (stdout[c] = <<>> \/ MarkerMissing[stdout[c]])

\* C17: every way an attempt can fail before certificate handling (the
\* listing command throws or exits non-zero, its output is empty, one of the
\* three patterns does not match) produces the same error kind,
\* ClientNotFoundError, so the caller cannot tell the causes apart; the
\* certificate file is not read in such an attempt.
C17_OneDiscoveryError ==
  \A c \in CallIds :
    FailedBeforeCertificate(c) =>
      /\ reading[c] = 0
      /\ credentials[c] = Undefined
      /\ ImmediateCall(c) =>
           /\ outcome[c] = "rejected"
           /\ error[c] = "ClientNotFoundError"
           /\ readCount[c] = 0
      /\ AwaitCall(c) =>
           /\ outcome[c] = "pending"
           /\ error[c] = "none"
           /\ timers[c] = 1

C17_Witness ==
  \E c \in CallIds :
    /\ ImmediateCall(c)
    /\ lastExec[c] = "ok"
    /\ stdout[c] = LineNoToken \o Nl
    /\ error[c] = "ClientNotFoundError"

(* ------------------------------------------------------------------ *)
(* Two calls at once                                                   *)
(* ------------------------------------------------------------------ *)

\* The options of two simultaneous calls: none (one attempt, no file read),
\* waiting with the default interval, and waiting with an interval of 0 and
\* the bundled certificate.
TwoOptions ==
  {NoOptions,
   [NoOptions EXCEPT !.awaitConnection = Some(TRUE)],
   [NoOptions EXCEPT !.awaitConnection = Some(TRUE),
                     !.pollInterval = Some(0),
                     !.unsafe = Some(FALSE)]}

\* What an execution of the listing command gives either call: it throws,
\* or it lists no client, or one of two clients.
TwoResults ==
  {Undefined, Some(LineNoPid \o Nl), Some(LineFullA \o Nl),
   Some(LineFullB \o Nl)}

ExecSettlesTwo(c) == ExecSettlesFrom(c, TwoResults)

\* Both calls are made, each with its own options, in either order and at
\* any point of the other's progress.
TwoInit ==
  /\ platform \in Platforms
  /\ \E o \in [CallIds -> TwoOptions] : InitWith(CallIds, o)

TwoNext ==
  \E c \in CallIds :
    \/ Authenticate(c)
    \/ ExecSettlesTwo(c)
    \/ ReadSettles(c)
    \/ TimerFires(c)
    \/ Abandon(c)

SpecTwo == TwoInit /\ [][TwoNext]_vars

\* The variables of call c.
CallState(c) ==
  <<options[c], outcome[c], error[c], credentials[c], settleCalls[c],
    running[c], reading[c], timers[c], execCount[c], timerCount[c],
    readCount[c], platformChecks[c], failedAttempts[c], delays[c],
    commands[c], lastExec[c], stdout[c], fileText[c], abandoned[c]>>

CallStateAfter(c) ==
  <<options'[c], outcome'[c], error'[c], credentials'[c], settleCalls'[c],
    running'[c], reading'[c], timers'[c], execCount'[c], timerCount'[c],
    readCount'[c], platformChecks'[c], failedAttempts'[c], delays'[c],
    commands'[c], lastExec'[c], stdout'[c], fileText'[c], abandoned'[c]>>

\* The outcome, the attempt count and the timers of call c are what its own
\* options and the results its own attempts observed make them.
OwnResultsOnly(c) ==
  /\ execCount[c] =
       failedAttempts[c]
         + (IF outcome[c] = "resolved" \/ running[c] + reading[c] = 1
            THEN 1 ELSE 0)
  /\ timerCount[c] = (IF AwaitCall(c) THEN failedAttempts[c] ELSE 0)
  /\ timers[c] =
       (IF AwaitCall(c) /\ outcome[c] = "pending"
           /\ running[c] + reading[c] = 0
        THEN 1 ELSE 0)
  /\ \A i \in DOMAIN delays[c] : delays[c][i] = PollDelay(options[c])
  /\ outcome[c] = "resolved" =>
       /\ lastExec[c] = "ok"
       /\ Parsed[stdout[c]] # Undefined
       /\ credentials[c] =
            Some(MakeCredentials(Val(Parsed[stdout[c]]),
                                 Certificate(options[c], fileText[c])))
  /\ outcome[c] # "resolved" => credentials[c] = Undefined
  /\ outcome[c] = "rejected" =>
       \/ platform \notin SupportedPlatforms /\ execCount[c] = 0
       \/ ImmediateCall(c) /\ failedAttempts[c] = 1
  /\ outcome[c] = "idle" => execCount[c] = 0 /\ failedAttempts[c] = 0

\* C18: concurrent calls are independent: in every interleaving of the
\* attempts and timers of two simultaneous calls, a step of one call leaves
\* every variable of the other call as it was, and the outcome, attempt
\* count and timers of each call follow from its own options and from the
\* listing results its own attempts observed.
C18_CallsIndependent ==
  /\ [](\A c \in CallIds : OwnResultsOnly(c))
  /\ [][\A c \in CallIds : \A d \in CallIds \ {c} :
          CallStateAfter(c) # CallState(c) =>
            CallStateAfter(d) = CallState(d)]_vars

C18_Witness ==
  /\ calls = {1, 2}
  /\ AwaitCall(1) /\ ImmediateCall(2)
  /\ outcome[1] = "pending" /\ timers[1] = 1 /\ failedAttempts[1] = 2
  /\ outcome[2] = "resolved" /\ execCount[2] = 1
  /\ stdout[2] = LineFullB \o Nl

(* ------------------------------------------------------------------ *)
(* Several process lines                                               *)
(* ------------------------------------------------------------------ *)

\* The process lines of the output s: the texts between its newlines.
LinesOf(s) ==
  LET breaks == {i \in 1..Len(s) : s[i] = Nl[1]}
      starts == {a \in {1} \cup {i + 1 : i \in breaks} : a <= Len(s)}
      ends   == breaks \cup {Len(s) + 1}
  IN  {SubSeq(s, a, Min({e \in ends : e >= a}) - 1) : a \in starts}

\* For every output of the model: the port, pid and password that each of
\* its lines gives when the three patterns are matched against that line
\* alone.
LineFields ==
  [o \in Outputs |->
     {Val(ParseFields(l)) :
        l \in {k \in LinesOf(o) : ~IsUndefined(ParseFields(k))}}]

\* C19: when the listing output holds several process lines, the port,
\* password and pid of a returned record all come from the command line of
\* one and the same process, never from different lines.
C19_FieldsFromOneLine ==
  \A c \in CallIds :
    outcome[c] = "resolved" =>
      \E f \in LineFields[stdout[c]] :
        /\ Val(credentials[c]).port = f.port
        /\ Val(credentials[c]).password = f.password
        /\ Val(credentials[c]).pid = f.pid

====
